---- MODULE Spec2Model ----
(***************************************************************************)
(* The query-history tree (src/client/items/history.ts) and the status bar *)
(* (src/client/modules/q-status-bar-manager.ts) of vscode-q.               *)
(*                                                                         *)
(* Strings that the code edits character by character (labels) are         *)
(* sequences of one-character strings.  A file's text is a sequence of     *)
(* JSON tokens: "[", "]", ",", "{", "}", a number, a token that stands for *)
(* the text of one serialized history object, or anything else (garbage).  *)
(* refresh() is an async function: every await is a point where other      *)
(* callbacks, other refresh calls and other processes may run, so each     *)
(* awaited file-system call is one action of a call slot.                  *)
(***************************************************************************)
EXTENDS Integers, Sequences, FiniteSets, TLC

\* ------------------------------------------------------------------ bounds
MaxCalls == 2        \* refresh calls that can be in flight together
MaxEvents == 3       \* events of a run: refresh calls on the root, appendHistory
                     \* calls, writes to the history file by another process and
                     \* file-system calls that fail for an outside reason
MaxFileLen == 1      \* records in a history file at start
MaxCreates == 2      \* calls of createHistoryTree, and of QStatusBarManager.create
MaxLabelLen == 3     \* characters of a label in the rendering specification
MaxItems == 1        \* records appended in the rendering specification

Calls == 1..MaxCalls
\* Slot 0 is the refresh call that appendHistory makes itself.
AllCalls == 0..MaxCalls

\* ------------------------------------------------------------ pure helpers
RECURSIVE replaceAll(_, _, _)
replaceAll(s, pat, rep) ==
    IF s = <<>> THEN <<>>
    ELSE <<IF Head(s) = pat THEN rep ELSE Head(s)>> \o replaceAll(Tail(s), pat, rep)

\* String.prototype.replace with a string pattern: the first occurrence only.
RECURSIVE replace(_, _, _)
replace(s, pat, rep) ==
    IF s = <<>> THEN <<>>
    ELSE IF Head(s) = pat THEN <<rep>> \o Tail(s)
    ELSE <<Head(s)>> \o replace(Tail(s), pat, rep)

\* dayjs(time).format('HH:mm:ss'); times are whole hours 1..9 here.
Digit == <<"1", "2", "3", "4", "5", "6", "7", "8", "9">>
formatHHmmss(time) == <<"0", Digit[time], ":", "0", "0", ":", "0", "0">>

\* The type History.
History(uniqLabel, time, duration, query, errorMsg) ==
    [uniqLabel |-> uniqLabel, time |-> time, duration |-> duration,
     query |-> query, errorMsg |-> errorMsg]

\* new HistoryTreeItem(history, parent): the fields the constructor sets.
HistoryTreeItem(history, parent) ==
    [class |-> "HistoryTreeItem",
     label |-> replace(history.uniqLabel, ",", "-") \o <<" ", "|", " ">>
               \o formatHHmmss(history.time),
     uniqLabel |-> history.uniqLabel,
     query |-> history.query,
     time |-> history.time,
     duration |-> history.duration,
     _parent |-> parent,
     errorMsg |-> history.errorMsg,
     server |-> <<"- server: ">> \o replace(history.uniqLabel, ",", "-"),
     body |-> IF history.errorMsg # "" THEN <<"- error:", history.errorMsg>>
              ELSE <<"- query:", history.query>>,
     _children |-> <<>>]

\* HistoryTreeItem.currentHistoryTree: "undefined", or the root it holds.
VARIABLE currentHistoryTree

\* histories.map(h => new HistoryTreeItem(h, currentHistoryTree))
MapItems(histories) ==
    [i \in 1..Len(histories) |-> HistoryTreeItem(histories[i], currentHistoryTree)]

\* ------------------------------------------------------------- JSON texts
\* The two serialized history objects that files hold in this model.
ObjectOf ==
    [h1 |-> History(<<"a", ",", "b">>, 1, 5, "til 3", ""),
     h2 |-> History(<<"q">>, 2, 0, "1+a", "type")]
ObjectTokens == {"h1", "h2"}
Histories == {ObjectOf[t] : t \in ObjectTokens}
ValueTokens == ObjectTokens \cup {"1"}

\* JSON.parse on a text: an array of values, another JSON value, or a SyntaxError.
IsArrayText(text) ==
    /\ Len(text) >= 2
    /\ text[1] = "["
    /\ text[Len(text)] = "]"
    /\ \/ Len(text) = 2
       \/ /\ Len(text) % 2 = 1
          /\ \A i \in 2..(Len(text) - 1) :
                IF i % 2 = 0 THEN text[i] \in ValueTokens ELSE text[i] = ","

JSONparse(text) ==
    IF IsArrayText(text)
    THEN [kind |-> "array",
          elems |-> [i \in 1..((Len(text) - 1) \div 2) |-> text[2 * i]]]
    ELSE IF text = <<"{", "}">> THEN [kind |-> "object", elems |-> <<>>]
    ELSE [kind |-> "SyntaxError", elems |-> <<>>]

\* The text of an array of serialized history objects (what a writer of the
\* file produces; the code itself only ever writes an empty array).
RECURSIVE ArrayBody(_)
ArrayBody(toks) ==
    IF toks = <<>> THEN <<>>
    ELSE IF Len(toks) = 1 THEN toks
    ELSE <<Head(toks), ",">> \o ArrayBody(Tail(toks))
ArrayText(toks) == <<"[">> \o ArrayBody(toks) \o <<"]">>

SeqsUpTo(S, n) == UNION {[1..k -> S] : k \in 0..n}

ValidTexts == {ArrayText(toks) : toks \in SeqsUpTo(ObjectTokens, MaxFileLen)}
BadTexts == {<<"not json">>, <<"{", "}">>, <<"[", "1", "]">>}
Texts == ValidTexts \cup BadTexts

\* What another process writes: a list of records, or something unreadable.
ExtTexts == {ArrayText(<<"h2">>), <<"not json">>}

Absent == [exists |-> FALSE, text |-> <<>>]
File(text) == [exists |-> TRUE, text |-> text]
Files == {Absent} \cup {File(t) : t \in Texts}

\* fileExists(path) of ../util/fs-utils: whether a file is at the path.
fileExists(f) == f.exists

\* ------------------------------------------------------------------- state
VARIABLES
    cur,        \* the file at historyPath: [exists, text]
    old,        \* the file at oldHistoryPath
    cacheDir,   \* whether path.dirname(historyPath) exists
    children,   \* currentHistoryTree._children
    fired,      \* number of _onDidChangeTreeData.fire calls so far
    seen,       \* what getChildren() gave a listener at the latest fire
    pc,         \* per refresh call on the root: where the async function stands
    buf,        \* per call: the text readFile resolved with
    errAt,      \* per call: the expression whose error rejected the promise
    snap,       \* per call: the list when the call started, and the files when
                \* it went on to the file system (observation)
    eff,        \* per call: what the call has done so far (observation)
    nStart,     \* refresh calls started on the root
    nAppend,    \* appendHistory calls
    nExt,       \* writes by another process
    faults,     \* file-system calls failed for an outside reason
    copies,     \* completed copyFile calls
    appended,   \* every appended history, latest first (observation)
    since,      \* histories appended since _children was last assigned
    base,       \* the histories _children was last assigned from
    scen,       \* "fresh", "loaded" once a file load was installed, "modified"
                \* once another process wrote the file after that (observation)
    statusBar,  \* QStatusBarManager.current and its three items
    made        \* the roots, managers and status bar items made so far, and the
                \* instances the two create functions returned (observation)

fsVars == <<cur, old, cacheDir>>
callVars == <<pc, buf, errAt, snap, eff>>
listVars == <<children, fired, seen>>
obsVars == <<appended, since, base>>
singleVars == <<currentHistoryTree, made>>
vars == <<cur, old, cacheDir, children, fired, seen, pc, buf, errAt, snap, eff,
          nStart, nAppend, nExt, faults, copies, appended, since, base, scen,
          statusBar, currentHistoryTree, made>>

NoSnap == [cur |-> Absent, old |-> Absent, kids |-> <<>>, seq |-> 0, scen |-> "fresh"]
NoLabel == [defined |-> FALSE, value |-> <<>>]
\* The argument of the most recent call of an update, for the record.
NoArg == [called |-> FALSE, arg |-> FALSE]
Arg(b) == [called |-> TRUE, arg |-> b]
NoStatusBar == [created |-> FALSE, connText |-> <<>>, connColor |-> "", connLabel |-> NoLabel,
                connShown |-> FALSE, queryShown |-> FALSE, unlimitedShown |-> FALSE,
                lastShow |-> NoArg, lastLimited |-> NoArg, instance |-> 0]
\* Nothing made yet; then the state after the first createHistoryTree().
NoneMade == [trees |-> 0, treeCalls |-> 0, treeRet |-> {},
             bars |-> 0, barCalls |-> 0, barRet |-> {}, items |-> 0]
TreeMade == [NoneMade EXCEPT !.trees = 1, !.treeCalls = 1, !.treeRet = {"root"}]
NoEff == [fire |-> 0, set |-> FALSE, read |-> FALSE, fs |-> 0,
          failedOp |-> "none", ret |-> <<>>]

\* A run has room for one more event.
Budget == nStart + nAppend + nExt + faults < MaxEvents

Settled == {"idle", "done", "failed"}
InFlight(c) == pc[c] \notin Settled
Quiet == \A c \in AllCalls : ~InFlight(c)

InitStore ==
    /\ cur \in Files
    /\ old \in Files
    /\ cacheDir \in BOOLEAN
    /\ cur.exists => cacheDir
    \* With a current file the legacy file's text is never read: one text stands for all.
    /\ (cur.exists /\ old.exists) => old = File(ArrayText(<<"h1">>))
    /\ children = <<>>
    /\ fired = 0
    /\ seen = <<>>
    /\ pc = [c \in AllCalls |-> "idle"]
    /\ buf = [c \in AllCalls |-> <<>>]
    /\ errAt = [c \in AllCalls |-> "none"]
    /\ snap = [c \in AllCalls |-> NoSnap]
    /\ eff = [c \in AllCalls |-> NoEff]
    /\ nStart = 0
    /\ nAppend = 0
    /\ nExt = 0
    /\ faults = 0
    /\ copies = 0
    /\ appended = <<>>
    /\ since = <<>>
    /\ base = <<>>
    /\ scen = "fresh"
    /\ statusBar = NoStatusBar

\* The store once the extension has made its history root.
Init ==
    /\ InitStore
    /\ currentHistoryTree = "root"
    /\ made = TreeMade

\* --------------------------------------------------------------- getChildren
Undefined == [class |-> "undefined", _children |-> <<>>]
Foreign == [class |-> "TreeItem", _children |-> <<>>]
Root == [class |-> "HistoryTreeItem", _parent |-> "null", _children |-> children]

getChildrenOfRootAlways(e) == children

getChildren(e) ==
    IF e.class = "HistoryTreeItem" THEN e._children
    ELSE IF e.class # "undefined" THEN <<>>
    ELSE children

\* ------------------------------------------------------- refresh on the root
\* An awaited promise: a rejection leaves the async function at once and
\* rejects refresh's own promise; otherwise the function goes on.
AwaitSwallow(c, rejected, op, next) ==
    /\ pc' = [pc EXCEPT ![c] = next]
    /\ errAt' = errAt

Await(c, rejected, op, next) ==
    /\ pc' = [pc EXCEPT ![c] = IF rejected THEN "failed" ELSE next]
    /\ errAt' = [errAt EXCEPT ![c] = IF rejected THEN op ELSE @]

\* What the file system did for the call (observation only).
FsCall(c, rejected, op) ==
    eff' = [eff EXCEPT ![c].fs = @ + 1,
                       ![c].failedOp = IF rejected THEN op ELSE @]

Fault(ok) ==
    /\ ok \/ Budget
    /\ faults' = IF ok THEN faults ELSE faults + 1

\* Lines 74-77 and the first await of line 80, for a list `kids`.
RefreshFromAlwaysLoad(c, kids) ==
    /\ snap' = [snap EXCEPT ![c] = [cur |-> cur, old |-> old, kids |-> kids,
                                    seq |-> nStart + 1, scen |-> scen]]
    /\ buf' = [buf EXCEPT ![c] = <<>>]
    /\ errAt' = [errAt EXCEPT ![c] = "none"]
    /\ pc' = [pc EXCEPT ![c] = "fileExists"]
    /\ eff' = [eff EXCEPT ![c] = NoEff]
    /\ UNCHANGED <<fired, seen>>

RefreshFrom(c, kids) ==
    /\ buf' = [buf EXCEPT ![c] = <<>>]
    /\ errAt' = [errAt EXCEPT ![c] = "none"]
    /\ IF Len(kids) > 0
       THEN /\ fired' = fired + 1
            /\ seen' = kids
            /\ pc' = [pc EXCEPT ![c] = "done"]
            /\ snap' = [snap EXCEPT ![c] = [NoSnap EXCEPT !.kids = kids,
                                                          !.seq = nStart + 1,
                                                          !.scen = scen]]
            /\ eff' = [eff EXCEPT ![c] = [NoEff EXCEPT !.fire = 1, !.ret = kids]]
       ELSE /\ pc' = [pc EXCEPT ![c] = "fileExists"]
            /\ snap' = [snap EXCEPT ![c] = [cur |-> cur, old |-> old, kids |-> kids,
                                            seq |-> nStart + 1, scen |-> scen]]
            /\ eff' = [eff EXCEPT ![c] = NoEff]
            /\ UNCHANGED <<fired, seen>>

\* root.refresh() is called.
Refresh(c) ==
    /\ ~InFlight(c)
    /\ Budget
    /\ currentHistoryTree # "undefined"
    /\ nStart' = nStart + 1
    /\ RefreshFrom(c, children)
    /\ UNCHANGED <<singleVars, statusBar, scen, fsVars, children, nAppend, nExt, faults, copies, obsVars>>

\* refresh() on a history record: _parent is set, the call returns.
RefreshItem ==
    /\ \E i \in 1..Len(children) : children[i]._parent # "null"
    /\ UNCHANGED vars

\* await fileExists(historyPath)
FileExistsCur(c) ==
    /\ pc[c] = "fileExists"
    /\ Await(c, FALSE, "fileExists", IF fileExists(cur) THEN "readFile" ELSE "mkdir")
    /\ FsCall(c, FALSE, "fileExists")
    /\ UNCHANGED <<singleVars, statusBar, scen, fsVars, listVars, buf, snap, nStart, nAppend, nExt, faults,
                   copies, obsVars>>

\* await fs.mkdir(path.dirname(historyPath), { recursive: true })
Mkdir(c, ok) ==
    /\ pc[c] = "mkdir"
    /\ Fault(ok)
    /\ cacheDir' = (cacheDir \/ ok)
    /\ Await(c, ~ok, "mkdir", "fileExistsOld")
    /\ FsCall(c, ~ok, "mkdir")
    /\ UNCHANGED <<singleVars, statusBar, scen, cur, old, listVars, buf, snap, nStart, nAppend, nExt, copies,
                   obsVars>>

\* await fileExists(oldHistoryPath)
FileExistsOld(c) ==
    /\ pc[c] = "fileExistsOld"
    /\ Await(c, FALSE, "fileExists", IF fileExists(old) THEN "copyFile" ELSE "writeFile")
    /\ FsCall(c, FALSE, "fileExists")
    /\ UNCHANGED <<singleVars, statusBar, scen, fsVars, listVars, buf, snap, nStart, nAppend, nExt, faults,
                   copies, obsVars>>

\* await fs.copyFile(oldHistoryPath, historyPath)
CopyFile(c, ok) ==
    /\ pc[c] = "copyFile"
    /\ Fault(ok)
    /\ LET rejected == ~ok \/ ~old.exists \/ ~cacheDir IN
       /\ cur' = IF rejected THEN cur ELSE old
       /\ copies' = IF rejected THEN copies ELSE copies + 1
       /\ Await(c, rejected, "copyFile", "unlink")
       /\ FsCall(c, rejected, "copyFile")
    /\ UNCHANGED <<singleVars, statusBar, scen, old, cacheDir, listVars, buf, snap, nStart, nAppend, nExt,
                   obsVars>>

UnlinkSkipped(c, ok) ==
    /\ pc[c] = "unlink"
    /\ Fault(ok)
    /\ old' = old
    /\ Await(c, ~ok, "unlink", "readFile")
    /\ FsCall(c, ~ok, "unlink")
    /\ UNCHANGED <<singleVars, statusBar, scen, cur, cacheDir, listVars, buf, snap, nStart, nAppend, nExt,
                   copies, obsVars>>

\* await fs.unlink(oldHistoryPath)
Unlink(c, ok) ==
    /\ pc[c] = "unlink"
    /\ Fault(ok)
    /\ LET rejected == ~ok \/ ~old.exists IN
       /\ old' = IF rejected THEN old ELSE Absent
       /\ Await(c, rejected, "unlink", "readFile")
       /\ FsCall(c, rejected, "unlink")
    /\ UNCHANGED <<singleVars, statusBar, scen, cur, cacheDir, listVars, buf, snap, nStart, nAppend, nExt,
                   copies, obsVars>>

WriteFileEmpty(c, ok) ==
    /\ pc[c] = "writeFile"
    /\ Fault(ok)
    /\ LET rejected == ~ok \/ ~cacheDir IN
       /\ cur' = IF rejected THEN cur ELSE File(<<>>)
       /\ Await(c, rejected, "writeFile", "readFile")
       /\ FsCall(c, rejected, "writeFile")
    /\ UNCHANGED <<singleVars, statusBar, scen, old, cacheDir, listVars, buf, snap, nStart, nAppend, nExt,
                   copies, obsVars>>

\* await fs.writeFile(historyPath, '[]', 'utf8')
WriteFile(c, ok) ==
    /\ pc[c] = "writeFile"
    /\ Fault(ok)
    /\ LET rejected == ~ok \/ ~cacheDir IN
       /\ cur' = IF rejected THEN cur ELSE File(<<"[", "]">>)
       /\ Await(c, rejected, "writeFile", "readFile")
       /\ FsCall(c, rejected, "writeFile")
    /\ UNCHANGED <<singleVars, statusBar, scen, old, cacheDir, listVars, buf, snap, nStart, nAppend, nExt,
                   copies, obsVars>>

\* await fs.readFile(historyPath, 'utf8')
ReadFile(c, ok) ==
    /\ pc[c] = "readFile"
    /\ Fault(ok)
    /\ LET rejected == ~ok \/ ~cur.exists IN
       /\ buf' = [buf EXCEPT ![c] = IF rejected THEN @ ELSE cur.text]
       /\ Await(c, rejected, "readFile", "parse")
       /\ eff' = [eff EXCEPT ![c].fs = @ + 1,
                             ![c].read = ~rejected,
                             ![c].failedOp = IF rejected THEN "readFile" ELSE @]
    /\ UNCHANGED <<singleVars, statusBar, scen, fsVars, listVars, snap, nStart, nAppend, nExt, copies, obsVars>>

\* Lines 89-91 once readFile has resolved: JSON.parse, map, assign, fire.
LoadHistoriesSwallow(c) ==
    /\ pc[c] = "parse"
    /\ LET parsed == JSONparse(buf[c])
           good == parsed.kind = "array"
                   /\ \A i \in 1..Len(parsed.elems) : parsed.elems[i] \in ObjectTokens
           histories == IF good THEN [i \in 1..Len(parsed.elems) |-> ObjectOf[parsed.elems[i]]]
                        ELSE <<>>
       IN
       /\ children' = MapItems(histories)
       /\ fired' = fired + 1
       /\ seen' = children'
       /\ pc' = [pc EXCEPT ![c] = IF good THEN "done" ELSE "failed"]
       /\ errAt' = [errAt EXCEPT ![c] = IF good THEN @ ELSE "JSON.parse"]
       /\ eff' = [eff EXCEPT ![c].set = TRUE, ![c].fire = @ + 1,
                             ![c].ret = children']
       /\ base' = histories
       /\ since' = <<>>
       /\ scen' = "loaded"
    /\ UNCHANGED <<singleVars, statusBar, fsVars, buf, snap, nStart, nAppend, nExt, faults, copies, appended>>

LoadHistories(c) ==
    /\ pc[c] = "parse"
    /\ LET parsed == JSONparse(buf[c]) IN
       IF parsed.kind = "SyntaxError"
       THEN \* JSON.parse throws
            /\ pc' = [pc EXCEPT ![c] = "failed"]
            /\ errAt' = [errAt EXCEPT ![c] = "JSON.parse"]
            /\ UNCHANGED <<listVars, eff, since, base, scen>>
       ELSE IF parsed.kind # "array"
       THEN \* histories.map is not a function
            /\ pc' = [pc EXCEPT ![c] = "failed"]
            /\ errAt' = [errAt EXCEPT ![c] = "map"]
            /\ UNCHANGED <<listVars, eff, since, base, scen>>
       ELSE IF \E i \in 1..Len(parsed.elems) : parsed.elems[i] \notin ObjectTokens
       THEN \* the constructor reads uniqLabel.replace of a value with no uniqLabel
            /\ pc' = [pc EXCEPT ![c] = "failed"]
            /\ errAt' = [errAt EXCEPT ![c] = "constructor"]
            /\ UNCHANGED <<listVars, eff, since, base, scen>>
       ELSE LET histories == [i \in 1..Len(parsed.elems) |-> ObjectOf[parsed.elems[i]]] IN
            /\ children' = MapItems(histories)
            /\ fired' = fired + 1
            /\ seen' = children'
            /\ pc' = [pc EXCEPT ![c] = "done"]
            /\ errAt' = errAt
            /\ eff' = [eff EXCEPT ![c].set = TRUE, ![c].fire = @ + 1,
                                  ![c].ret = children']
            /\ base' = histories
            /\ since' = <<>>
            /\ scen' = "loaded"
    /\ UNCHANGED <<singleVars, statusBar, fsVars, buf, snap, nStart, nAppend, nExt, faults, copies, appended>>

\* ------------------------------------------------------------ appendHistory
AppendHistoryPush(history) ==
    /\ Budget
    /\ nAppend' = nAppend + 1
    /\ LET kids == children \o <<HistoryTreeItem(history, "root")>> IN
       /\ children' = kids
       /\ ~InFlight(0)
       /\ RefreshFrom(0, kids)
    /\ appended' = <<history>> \o appended
    /\ since' = <<history>> \o since
    /\ UNCHANGED <<singleVars, statusBar, scen, fsVars, nStart, nExt, faults, copies, base>>

AppendHistoryPersist(history) ==
    /\ Budget
    /\ nAppend' = nAppend + 1
    /\ LET kids == <<HistoryTreeItem(history, "root")>> \o children
           all == <<history>> \o since \o base
           TokenOf(h) == CHOOSE t \in ObjectTokens : ObjectOf[t] = h
       IN
       /\ children' = kids
       /\ ~InFlight(0)
       /\ RefreshFrom(0, kids)
       /\ cur' = File(ArrayText([i \in 1..Len(all) |-> TokenOf(all[i])]))
    /\ appended' = <<history>> \o appended
    /\ since' = <<history>> \o since
    /\ UNCHANGED <<singleVars, statusBar, scen, old, cacheDir, nStart, nExt, faults, copies, base>>

AppendHistoryFireFirst(history) ==
    /\ Budget
    /\ nAppend' = nAppend + 1
    /\ ~InFlight(0)
    /\ RefreshFrom(0, children)
    /\ children' = <<HistoryTreeItem(history, "root")>> \o children
    /\ appended' = <<history>> \o appended
    /\ since' = <<history>> \o since
    /\ UNCHANGED <<singleVars, statusBar, scen, fsVars, nStart, nExt, faults, copies, base>>

\* unshift the new item, then call refresh() without awaiting it.
AppendHistory(history) ==
    /\ Budget
    /\ nAppend' = nAppend + 1
    /\ currentHistoryTree # "undefined"
    /\ LET kids == <<HistoryTreeItem(history, currentHistoryTree)>> \o children IN
       /\ children' = kids
       /\ ~InFlight(0)
       /\ RefreshFrom(0, kids)
    /\ appended' = <<history>> \o appended
    /\ since' = <<history>> \o since
    /\ UNCHANGED <<singleVars, statusBar, scen, fsVars, nStart, nExt, faults, copies, base>>

\* ------------------------------------------------------------- environment
\* Another process writes the history file.
ExternalWrite(text) ==
    /\ Budget
    /\ nExt' = nExt + 1
    /\ cur # File(text)
    /\ cur' = File(text)
    /\ cacheDir' = TRUE
    /\ scen' = IF scen = "loaded" THEN "modified" ELSE scen
    /\ UNCHANGED <<singleVars, statusBar, old, listVars, callVars, nStart, nAppend, faults, copies, obsVars>>

\* --------------------------------------------------------- QStatusBarManager
\* QConnManager.queryMode and QConnManager.consoleMode are read from the
\* connection manager; each call below takes them as inputs.
QueryModes == {<<"C", "o", "n", "s", "o", "l", "e">>, <<"V", "i", "r", "t", "u", "a", "l">>}
NoConnection == <<"N", "o", " ", "C", "o", "n", "n", "e", "c", "t", "i", "o", "n">>
LabelChars == {"a", ","}
Labels == SeqsUpTo(LabelChars, MaxLabelLen)
OptLabels == {NoLabel} \cup {[defined |-> TRUE, value |-> l] : l \in Labels}
AllHistories == {History(l, 1, 0, "til 3", "") : l \in Labels}

\* The root a call of createHistoryTree makes: the first one, or a later one.
NewRoot == IF made.trees = 0 THEN "root" ELSE "another root"

\* createHistoryTree making a root at every call.
CreateHistoryTreeAlwaysNew ==
    /\ made.treeCalls < MaxCreates
    /\ currentHistoryTree' = NewRoot
    /\ made' = [made EXCEPT !.trees = @ + 1, !.treeCalls = @ + 1,
                            !.treeRet = @ \cup {NewRoot}]
    /\ UNCHANGED <<fsVars, listVars, callVars, nStart, nAppend, nExt, faults, copies,
                   obsVars, scen, statusBar>>

\* HistoryTreeItem.createHistoryTree()
CreateHistoryTree ==
    /\ made.treeCalls < MaxCreates
    /\ IF currentHistoryTree = "undefined"
       THEN /\ currentHistoryTree' = NewRoot
            /\ made' = [made EXCEPT !.trees = @ + 1, !.treeCalls = @ + 1,
                                    !.treeRet = @ \cup {NewRoot}]
       ELSE /\ currentHistoryTree' = currentHistoryTree
            /\ made' = [made EXCEPT !.treeCalls = @ + 1,
                                    !.treeRet = @ \cup {currentHistoryTree}]
    /\ UNCHANGED <<fsVars, listVars, callVars, nStart, nAppend, nExt, faults, copies,
                   obsVars, scen, statusBar>>

\* QStatusBarManager.create(context)
Create ==
    /\ made.barCalls < MaxCreates
    /\ IF ~statusBar.created
       THEN /\ statusBar' = [NoStatusBar EXCEPT !.created = TRUE, !.connShown = TRUE,
                                                !.instance = made.bars + 1]
            /\ made' = [made EXCEPT !.bars = @ + 1, !.barCalls = @ + 1, !.items = @ + 3,
                                    !.barRet = @ \cup {made.bars + 1}]
       ELSE /\ statusBar' = statusBar
            /\ made' = [made EXCEPT !.barCalls = @ + 1,
                                    !.barRet = @ \cup {statusBar.instance}]
    /\ UNCHANGED <<fsVars, listVars, callVars, nStart, nAppend, nExt, faults, copies,
                   obsVars, scen, currentHistoryTree>>

\* The text updateConnStatus computes (line 45).
connStatusText(label, queryMode) ==
    <<queryMode[1], ":">>
    \o replace(IF label.defined THEN label.value ELSE NoConnection, ",", "-")

\* QStatusBarManager.updateConnStatus(label); this.current! must be set.
UpdateConnStatus(label, queryMode, consoleMode) ==
    /\ statusBar.created
    /\ statusBar' = [statusBar EXCEPT
                        !.connText = connStatusText(label, queryMode),
                        !.connColor = IF consoleMode THEN "#FF79C6" ELSE "#8BE9FD",
                        !.connLabel = label]
    /\ UNCHANGED <<fsVars, listVars, callVars, nStart, nAppend, nExt, faults, copies,
                   obsVars, scen, singleVars>>

\* QStatusBarManager.updateConnStatusColor()
UpdateConnStatusColor(consoleMode) ==
    /\ statusBar.created
    /\ statusBar' = [statusBar EXCEPT
                        !.connColor = IF consoleMode THEN "#FF79C6" ELSE "#8BE9FD"]
    /\ UNCHANGED <<fsVars, listVars, callVars, nStart, nAppend, nExt, faults, copies,
                   obsVars, scen, singleVars>>

\* QStatusBarManager.updateQueryStatus(show)
UpdateQueryStatus(show) ==
    /\ statusBar.created
    /\ statusBar' = [statusBar EXCEPT !.queryShown = show, !.lastShow = Arg(show)]
    /\ UNCHANGED <<fsVars, listVars, callVars, nStart, nAppend, nExt, faults, copies,
                   obsVars, scen, singleVars>>

\* updateUnlimitedQueryStatus showing the widget of a limited query.
UpdateUnlimitedQueryStatusSameSense(isLimited) ==
    /\ statusBar.created
    /\ statusBar' = [statusBar EXCEPT !.unlimitedShown = isLimited,
                                      !.lastLimited = Arg(isLimited)]
    /\ UNCHANGED <<fsVars, listVars, callVars, nStart, nAppend, nExt, faults, copies,
                   obsVars, scen, singleVars>>

\* QStatusBarManager.updateUnlimitedQueryStatus(isLimited)
UpdateUnlimitedQueryStatus(isLimited) ==
    /\ statusBar.created
    /\ statusBar' = [statusBar EXCEPT !.unlimitedShown = ~isLimited,
                                      !.lastLimited = Arg(isLimited)]
    /\ UNCHANGED <<fsVars, listVars, callVars, nStart, nAppend, nExt, faults, copies,
                   obsVars, scen, singleVars>>

\* ------------------------------------------------------------ specifications
\* Slots are interchangeable: a call takes the lowest one that is not in flight.
FreeSlot(c) == ~InFlight(c) /\ \A d \in Calls : d < c => InFlight(d)

Next ==
    \/ \E c \in Calls : FreeSlot(c) /\ Refresh(c)
    \/ RefreshItem
    \/ \E c \in AllCalls : FileExistsCur(c)
    \/ \E c \in AllCalls, ok \in BOOLEAN : Mkdir(c, ok)
    \/ \E c \in AllCalls : FileExistsOld(c)
    \/ \E c \in AllCalls, ok \in BOOLEAN : CopyFile(c, ok)
    \/ \E c \in AllCalls, ok \in BOOLEAN : Unlink(c, ok)
    \/ \E c \in AllCalls, ok \in BOOLEAN : WriteFile(c, ok)
    \/ \E c \in AllCalls, ok \in BOOLEAN : ReadFile(c, ok)
    \/ \E c \in AllCalls : LoadHistories(c)
    \/ \E h \in Histories : AppendHistory(h)
    \/ \E t \in ExtTexts : ExternalWrite(t)

Spec == Init /\ [][Next]_vars

\* One refresh at a time, no append while one is in flight, no failing
\* file-system call and no other process.
NextSeq ==
    \/ \E c \in Calls : Quiet /\ Refresh(c)
    \/ RefreshItem
    \/ \E c \in AllCalls : FileExistsCur(c)
    \/ \E c \in AllCalls : Mkdir(c, TRUE)
    \/ \E c \in AllCalls : FileExistsOld(c)
    \/ \E c \in AllCalls : CopyFile(c, TRUE)
    \/ \E c \in AllCalls : Unlink(c, TRUE)
    \/ \E c \in AllCalls : WriteFile(c, TRUE)
    \/ \E c \in AllCalls : ReadFile(c, TRUE)
    \/ \E c \in AllCalls : LoadHistories(c)
    \/ \E h \in Histories : Quiet /\ AppendHistory(h)

SpecSeq == Init /\ [][NextSeq]_vars

\* One refresh at a time and no other process, as in NextSeq, with
\* file-system calls that can fail.
NextRetry ==
    \/ \E c \in Calls : Quiet /\ Refresh(c)
    \/ RefreshItem
    \/ \E c \in AllCalls : FileExistsCur(c)
    \/ \E c \in AllCalls, ok \in BOOLEAN : Mkdir(c, ok)
    \/ \E c \in AllCalls : FileExistsOld(c)
    \/ \E c \in AllCalls, ok \in BOOLEAN : CopyFile(c, ok)
    \/ \E c \in AllCalls, ok \in BOOLEAN : Unlink(c, ok)
    \/ \E c \in AllCalls, ok \in BOOLEAN : WriteFile(c, ok)
    \/ \E c \in AllCalls, ok \in BOOLEAN : ReadFile(c, ok)
    \/ \E c \in AllCalls : LoadHistories(c)
    \/ \E h \in Histories : Quiet /\ AppendHistory(h)

SpecRetry == Init /\ [][NextRetry]_vars

\* The rendering of labels: records with any label are appended to a fresh
\* root, and the status bar is driven with any label.
InitRender == Init /\ cur = Absent /\ old = Absent /\ ~cacheDir

NextRender ==
    \/ \E h \in AllHistories : Len(children) < MaxItems /\ AppendHistory(h)
    \/ Create
    \/ \E l \in OptLabels, m \in QueryModes, cm \in BOOLEAN : UpdateConnStatus(l, m, cm)
    \/ \E cm \in BOOLEAN : UpdateConnStatusColor(cm)
    \/ \E show \in BOOLEAN : UpdateQueryStatus(show)
    \/ \E isLimited \in BOOLEAN : UpdateUnlimitedQueryStatus(isLimited)

SpecRender == InitRender /\ [][NextRender]_vars

\* The status bar manager alone, driven with any label.
NextWidgets ==
    \/ Create
    \/ \E l \in OptLabels, m \in QueryModes, cm \in BOOLEAN : UpdateConnStatus(l, m, cm)
    \/ \E cm \in BOOLEAN : UpdateConnStatusColor(cm)
    \/ \E show \in BOOLEAN : UpdateQueryStatus(show)
    \/ \E isLimited \in BOOLEAN : UpdateUnlimitedQueryStatus(isLimited)

SpecWidgets == InitRender /\ [][NextWidgets]_vars

\* From the start of the extension, with neither the history root nor the
\* status bar manager made: the two create functions, and the store used
\* one call at a time.
InitSingleton ==
    /\ InitStore
    /\ currentHistoryTree = "undefined"
    /\ made = NoneMade

NextSingleton ==
    \/ CreateHistoryTree
    \/ Create
    \/ NextSeq

SpecSingleton == InitSingleton /\ [][NextSingleton]_vars

\* ================================================================== claims
\* The call in slot c has been made and its promise is settled.
Ended(c) == pc[c] \in {"done", "failed"}
Range(f) == {f[i] : i \in DOMAIN f}
\* A text is a serialized list of records when some list of records serializes to it.
IsRecordListText(text) ==
    \E toks \in SeqsUpTo(ObjectTokens, Len(text)) : text = ArrayText(toks)
ParseErrors == {"JSON.parse", "map", "constructor"}
\* The call in slot c started with no current file and a legacy file.
Migrating(c) == Ended(c) /\ snap[c].kids = <<>> /\ ~snap[c].cur.exists /\ snap[c].old.exists
\* The call in slot c started with neither file.
ColdStart(c) == Ended(c) /\ snap[c].kids = <<>> /\ ~snap[c].cur.exists /\ ~snap[c].old.exists

\* C1: with one refresh at a time and no failing file-system call, a refresh
\* that started with no current file and a legacy file of content C ends with
\* the current file holding exactly C, the legacy file absent and one copy
\* made; every later refresh ends without error, and files and copy count
\* stay as they are.
C1_MigrationIdempotent ==
    \A c \in Calls : Migrating(c) =>
        /\ cur = snap[c].old
        /\ ~old.exists
        /\ copies = 1
        /\ pc[c] = "done" =>
              \A d \in Calls : (Ended(d) /\ snap[d].seq > snap[c].seq) =>
                  pc[d] = "done" /\ errAt[d] = "none"

C1_Witness ==
    \E c, d \in Calls :
        /\ Migrating(c) /\ pc[c] = "done"
        /\ snap[c].old.text = <<"[", "]">>
        /\ pc[d] = "done" /\ snap[d].seq > snap[c].seq
        /\ eff[d].read

\* C2 as amended: in every state, so whenever a load returns, the root's list
\* is the records appended since the list was last assigned from the file,
\* latest first, followed by the records of that file load in file order.
C2_AppendedThenLoaded ==
    /\ getChildren(Root) = MapItems(since \o base)
    /\ \A c \in AllCalls : (pc[c] = "done" /\ eff[c].ret = children /\ scen = "fresh")
                             => children = MapItems(appended)

C2_Witness ==
    \E c \in AllCalls :
        /\ pc[c] = "done"
        /\ eff[c].ret = children
        /\ Len(since) = 2 /\ since[1] # since[2]
        /\ Len(base) = 1

\* C2 as stated: whenever a refresh on the root completes after N >= 1
\* appends r1..rN, the root's list is exactly [rN, ..., r1].  Stated for the
\* runs in which no file load was installed after r1 was appended, so that a
\* violation does not rest on a load overtaking an append.
C2_Original ==
    [][\A c \in Calls :
          (/\ snap'[c].seq # snap[c].seq \/ pc[c] # "done"
           /\ pc'[c] = "done"
           /\ appended' # <<>>
           /\ since' = appended')
          => children' = MapItems(appended')]_vars

\* C3 as amended: a load started after a file load and a later write by
\* another process returns the cached list, without any file-system call,
\* when that list is not empty; when it is empty the load goes to the file
\* system again.
C3_StaleWhenNonEmpty ==
    \A d \in Calls : (pc[d] # "idle" /\ snap[d].scen = "modified") =>
        IF snap[d].kids # <<>>
        THEN /\ pc[d] = "done"
             /\ eff[d].ret = snap[d].kids
             /\ ~eff[d].read
             /\ eff[d].fs = 0
        ELSE InFlight(d) \/ eff[d].fs > 0

C3_Witness ==
    \E d \in Calls :
        /\ pc[d] = "done" /\ snap[d].scen = "modified"
        /\ snap[d].kids # <<>>
        /\ nAppend = 0
        /\ cur.text # ArrayText(<<"h1">>)
        /\ eff[d].ret = MapItems(<<ObjectOf["h1"]>>)

\* C3 as stated: a load started after a file load and a later write by another
\* process returns the list that was cached and not the file's new content,
\* whatever the first load read.  Stated for the loads that end without
\* error in runs where no file-system call failed.
C3_Original ==
    \A d \in Calls : (pc[d] = "done" /\ snap[d].scen = "modified" /\ faults = 0) =>
        /\ eff[d].ret = snap[d].kids
        /\ ~eff[d].read

C5_InitFailurePropagates ==
    \A c \in AllCalls :
        eff[c].failedOp \in {"mkdir", "copyFile", "unlink", "writeFile"} =>
            /\ pc[c] = "failed"
            /\ errAt[c] = eff[c].failedOp
            /\ ~eff[c].read
            /\ ~eff[c].set
            /\ eff[c].fire = 0

C5_Witness ==
    \E c \in Calls :
        /\ eff[c].failedOp = "unlink" /\ pc[c] = "failed"
        /\ faults = 1
        /\ cur.exists /\ old.exists

\* C6: with one refresh at a time and no failing file-system call, a refresh
\* that started with neither file ends without error, the current file exists
\* and parses to an empty list, the legacy file is absent and the list the
\* call installed is empty.
C6_ColdStartEmpty ==
    \A c \in Calls : ColdStart(c) =>
        /\ pc[c] = "done"
        /\ cur.exists
        /\ JSONparse(cur.text) = [kind |-> "array", elems |-> <<>>]
        /\ ~old.exists
        /\ eff[c].set
        /\ eff[c].ret = <<>>

C6_Witness ==
    \E c \in Calls : ColdStart(c) /\ pc[c] = "done" /\ cur = File(<<"[", "]">>)

\* C7: a step of appendHistory, and every step of the refresh call it makes,
\* leaves both files and the directory as they are; a step of the program
\* that changes a file is the copyFile, unlink or writeFile of a call that
\* found the current file missing.
C7_AppendDoesNotPersist ==
    [][/\ (nAppend' # nAppend \/ pc'[0] # pc[0] \/ eff'[0] # eff[0])
            => (cur' = cur /\ old' = old /\ cacheDir' = cacheDir /\ ~InFlight(0)')
       /\ ((cur' # cur \/ old' # old) /\ nExt' = nExt)
            => \E c \in AllCalls :
                  /\ pc[c] \in {"copyFile", "unlink", "writeFile"}
                  /\ pc'[c] # pc[c]
                  /\ ~snap[c].cur.exists]_vars

C7_Witness ==
    /\ nAppend = 2
    /\ ~cur.exists
    /\ old.exists
    /\ ~InFlight(0)
    /\ pc[0] = "done"

\* C8: getChildren with no element or with the root gives the root's list,
\* which is the list made by loads and appends; getChildren of a record item
\* or of a foreign tree item is empty; every record item has the root as
\* parent and no children.
C8_FlatTree ==
    /\ getChildren(Undefined) = children
    /\ getChildren(Root) = children
    /\ children = MapItems(since \o base)
    /\ getChildren(Foreign) = <<>>
    /\ \A i \in 1..Len(children) :
          /\ getChildren(children[i]) = <<>>
          /\ children[i]._parent = "root"
          /\ children[i]._children = <<>>

C8_Witness ==
    /\ Len(children) = 3
    /\ Len(base) = 1
    /\ Quiet

\* C9 as stated: every rendered form of a label has "-" where the label has
\* a comma, so it holds no comma of the label, and uniqLabel is the label.
C9_Original ==
    /\ \A i \in 1..Len(children) :
          LET h == (since \o base)[i] IN
          /\ children[i].label = replaceAll(h.uniqLabel, ",", "-")
                                 \o <<" ", "|", " ">> \o formatHHmmss(h.time)
          /\ children[i].server = <<"- server: ">> \o replaceAll(h.uniqLabel, ",", "-")
          /\ "," \notin Range(children[i].label)
          /\ "," \notin Range(children[i].server)
          /\ children[i].uniqLabel = h.uniqLabel
    /\ statusBar.connLabel.defined =>
          /\ SubSeq(statusBar.connText, 3, Len(statusBar.connText))
                = replaceAll(statusBar.connLabel.value, ",", "-")
          /\ "," \notin Range(statusBar.connText)

\* C10: an appendHistory step fires exactly once, with the new record already
\* first in the list a listener reads; a refresh on the root that finds the
\* list non-empty fires exactly once and makes no file-system call; a refresh
\* that loads the file fires exactly once, with the loaded list already
\* installed; a call that has ended without error has fired exactly once.
C10_NotifyOnChange ==
    [][/\ nAppend' # nAppend =>
            /\ fired' = fired + 1
            /\ seen' = children'
            /\ Len(children') = Len(children) + 1
            /\ Head(children')
                 = HistoryTreeItem(Head(appended'), "root")
       /\ \A c \in Calls :
            (nStart' # nStart /\ snap'[c] # snap[c] /\ children # <<>>) =>
                /\ fired' = fired + 1
                /\ seen' = children /\ children' = children
                /\ pc'[c] = "done"
                /\ eff'[c].fs = 0 /\ eff'[c].fire = 1
                /\ cur' = cur /\ old' = old /\ cacheDir' = cacheDir
       /\ \A c \in AllCalls :
            (pc[c] = "parse" /\ pc'[c] = "done") =>
                /\ fired' = fired + 1
                /\ children' = MapItems(base')
                /\ seen' = children'
                /\ eff'[c].fire = 1
       /\ \A c \in AllCalls : pc'[c] = "done" => eff'[c].fire = 1]_vars

C10_Witness ==
    /\ fired = 3
    /\ nAppend = 1
    /\ nStart = 2
    /\ Len(base) = 1
    /\ seen = children

\* C11: once QStatusBarManager.create has run, the connection widget is
\* shown; the querying widget is shown exactly when the last updateQueryStatus
\* passed show = true, and is hidden when there was no such call; the
\* unlimited-query widget is shown exactly when the last
\* updateUnlimitedQueryStatus passed isLimited = false, and is hidden when
\* there was no such call.  Each widget's visibility being a function of the
\* last call of its own update, no other call changes it.
C11_Visibility ==
    statusBar.created =>
        /\ statusBar.connShown
        /\ statusBar.queryShown = (statusBar.lastShow.called /\ statusBar.lastShow.arg)
        /\ statusBar.unlimitedShown
              = (statusBar.lastLimited.called /\ ~statusBar.lastLimited.arg)

C11_Witness ==
    /\ statusBar.created
    /\ statusBar.connShown
    /\ statusBar.lastShow = Arg(FALSE) /\ ~statusBar.queryShown
    /\ statusBar.lastLimited = Arg(FALSE) /\ statusBar.unlimitedShown
    /\ statusBar.connLabel.defined

\* C12 as stated: every record passed to appendHistory is in the root's list
\* in every later state.  Stated for the runs in which no file-system call
\* failed and no other process wrote the file.
C12_Original ==
    (faults = 0 /\ nExt = 0) =>
        \A i \in 1..Len(appended) :
            \E j \in 1..Len(children) : children[j] = HistoryTreeItem(appended[i], "root")

\* C13 as stated: two refresh calls that both started with an empty list, no
\* current file and a legacy file of valid content C (so the second started
\* while the first was in flight) both end without error, with the current
\* file holding C and the legacy file absent.  Stated for the runs in which
\* no file-system call failed for an outside reason and no other process
\* wrote the file.
C13_Original ==
    (/\ faults = 0 /\ nExt = 0
     /\ Migrating(1) /\ Migrating(2)
     /\ IsRecordListText(snap[1].old.text)
     /\ snap[2].old = snap[1].old)
    => /\ pc[1] = "done" /\ pc[2] = "done"
       /\ cur = snap[1].old
       /\ ~old.exists

\* The records of a serialized list of records.
RecordsOf(text) ==
    LET elems == JSONparse(text).elems IN [i \in 1..Len(elems) |-> ObjectOf[elems[i]]]

\* C14 as stated: when the history file holds a valid list F that is not
\* empty, once a refresh on the root has completed without error and no call
\* is in flight, every record of F is in the root's list, whether or not
\* appendHistory was called before the first refresh.  Stated for the runs in
\* which no file-system call failed and no other process wrote the file.
C14_Original ==
    (/\ faults = 0 /\ nExt = 0
     /\ Quiet
     /\ \E c \in AllCalls : pc[c] = "done"
     /\ cur.exists /\ IsRecordListText(cur.text) /\ cur.text # <<"[", "]">>)
    => \A i \in 1..Len(RecordsOf(cur.text)) :
          \E j \in 1..Len(children) :
              children[j] = HistoryTreeItem(RecordsOf(cur.text)[i], "root")

\* C15 as stated: with one refresh at a time, file-system calls that may fail
\* and no other process, when no refresh is in flight and the current file
\* holds what was copied from the legacy file, the legacy file is absent.
\* Stated for the states in which the latest refresh ended without error, so
\* that a refresh made after a failed delete has had its chance to remove
\* the legacy file.
C15_Original ==
    (/\ Quiet
     /\ copies > 0 /\ cur.exists
     /\ \E c \in Calls : pc[c] = "done" /\ snap[c].seq = nStart)
    => ~old.exists

\* C16: over any calls of createHistoryTree and QStatusBarManager.create,
\* every call returns the instance the first call of its kind made: at most
\* one root is made and it is the one currentHistoryTree holds, at most one
\* manager is made, with its three status bar items and no more, and every
\* record item of the root's list, appended or loaded, has that root as its
\* parent.
C16_Singleton ==
    /\ made.trees <= 1
    /\ made.trees = (IF made.treeCalls > 0 THEN 1 ELSE 0)
    /\ made.treeRet \subseteq {"root"}
    /\ currentHistoryTree = (IF made.treeCalls > 0 THEN "root" ELSE "undefined")
    /\ made.bars = (IF made.barCalls > 0 THEN 1 ELSE 0)
    /\ made.items = 3 * made.bars
    /\ made.barRet \subseteq {1}
    /\ statusBar.created = (made.barCalls > 0)
    /\ statusBar.created => statusBar.instance = 1
    /\ \A i \in 1..Len(children) : children[i]._parent = "root"

C16_Witness ==
    /\ made.treeCalls = 2 /\ made.trees = 1 /\ made.treeRet = {"root"}
    /\ made.barCalls = 2 /\ made.bars = 1 /\ made.items = 3
    /\ Len(since) = 1 /\ Len(base) = 1
    /\ Len(children) = 2
====
